---- MODULE Spec2Model ----
(***************************************************************************)
(* Model of the Rememberizer MCP protocol adapter                          *)
(* (src/src/mcp_server_rememberizer/server.py): the four handlers          *)
(* list_resources, read_resource, list_tools and call_tool, and the API    *)
(* Client they call.  The transport delivers one invocation at a time, so  *)
(* each handler is one action; the state is the last invocation, the API   *)
(* Client calls it issued, the reply the client got and the handler's      *)
(* outcome (a returned value or a raised exception).                       *)
(***************************************************************************)
EXTENDS Integers, Sequences, FiniteSets, TLC

VARIABLES inv, calls, reply, result

vars == <<inv, calls, reply, result>>

(***************************************************************************)
(* Bounds of the model.                                                    *)
(***************************************************************************)
\* longest uri path, in characters
MaxPathLen == 3
\* longest "results" array of a documents listing
MaxResults == 2

(***************************************************************************)
(* Python / JSON values.  A value is a string, an integer or None; the     *)
(* three kinds share one record shape.  Record constructors list their     *)
(* fields in the order TLC keeps them, so that no value is reordered while *)
(* two workers read it.                                                    *)
(***************************************************************************)
StrVal(s) == [kind |-> "str", str |-> s, int |-> 0]

IntVal(i) == [kind |-> "int", str |-> "", int |-> i]

None == [kind |-> "none", str |-> "", int |-> 0]

\* an empty dict / no keyword arguments
EmptyDict == [k \in {} |-> None]

\* dict.get(key, default)
Get(d, key, default) == IF key \in DOMAIN d THEN d[key] ELSE default

\* decoded JSON: an object (a dict) and an array (a list)
JsonObject(members) == [members |-> members, json |-> "object"]

JsonArray(items) == [json |-> "array", items |-> items]

(***************************************************************************)
(* Path templates of the remote API (utils.py).                            *)
(***************************************************************************)
ACCOUNT_INFORMATION_PATH == "ACCOUNT_INFORMATION_PATH"

AGENTIC_SEARCH_PATH == "AGENTIC_SEARCH_PATH"

LIST_DOCUMENTS_PATH == "LIST_DOCUMENTS_PATH"

LIST_INTEGRATIONS_PATH == "LIST_INTEGRATIONS_PATH"

MEMORIZE_PATH == "MEMORIZE_PATH"

RETRIEVE_DOCUMENT_PATH == "RETRIEVE_DOCUMENT_PATH/{id}"

RETRIEVE_SLACK_PATH == "RETRIEVE_SLACK_PATH/{id}"

SEARCH_PATH == "SEARCH_PATH"

\* a path used as it is
Plain(path) == [template |-> path, formatted |-> FALSE, id |-> <<>>]

\* path.format(id=document_id)
Format(path, document_id) == [template |-> path, formatted |-> TRUE, id |-> document_id]

(***************************************************************************)
(* Outcomes of a handler and requests to the API Client.                   *)
(***************************************************************************)
Raise(exc, detail) == [kind |-> "raise", exc |-> exc, detail |-> detail]

Return(value) == [kind |-> "return", value |-> value]

\* client.get(path, params=params) / client.post(path, data=params)
Call(method, path, params) ==
    [kind |-> "call", path |-> path, method |-> method, params |-> params]

\* arguments[key] on a dict that lacks key
KeyError(key) == Raise("KeyError", key)

\* str(data)
PyStr(data) == [value |-> data, rule |-> "str"]

\* json.dumps(data, indent=2)
JsonDumpsIndent2(data) == [value |-> data, rule |-> "json.dumps indent=2"]

\* types.TextContent(type="text", text=text)
TextContent(text) == [text |-> text, type |-> "text"]

(***************************************************************************)
(* The tool names: the literals call_tool matches on, which are the values *)
(* of the RememberizerTools enumeration that list_tools advertises.        *)
(***************************************************************************)
SEARCH == "retrieve_semantically_similar_internal_knowledge"

AGENTIC_SEARCH == "smart_search_internal_knowledge"

LIST_INTEGRATIONS == "list_internal_knowledge_systems"

ACCOUNT_INFORMATION == "rememberizer_account_information"

LIST_DOCUMENTS == "list_personal_team_knowledge_documents"

MEMORIZE == "remember_this"

RememberizerTools == [SEARCH |-> SEARCH,
                      AGENTIC_SEARCH |-> AGENTIC_SEARCH,
                      LIST_INTEGRATIONS |-> LIST_INTEGRATIONS,
                      ACCOUNT_INFORMATION |-> ACCOUNT_INFORMATION,
                      LIST_DOCUMENTS |-> LIST_DOCUMENTS,
                      MEMORIZE |-> MEMORIZE]

(***************************************************************************)
(* list_tools: the catalog.  A schema is kept as its property names, its   *)
(* "required" list (empty when the schema has no such key) and the         *)
(* defaults it declares.                                                   *)
(***************************************************************************)
Tool(name, properties, required, defaults) ==
    [name |-> name,
     inputSchema |-> [type |-> "object", properties |-> properties,
                      required |-> required, defaults |-> defaults]]

list_tools ==
    << Tool(RememberizerTools.ACCOUNT_INFORMATION, {}, {}, EmptyDict),
       Tool(RememberizerTools.SEARCH,
            {"match_this", "n_results", "from_datetime_ISO8601", "to_datetime_ISO8601"},
            {"match_this"}, EmptyDict),
       Tool(RememberizerTools.AGENTIC_SEARCH,
            {"query", "user_context", "n_results", "from_datetime_ISO8601",
             "to_datetime_ISO8601"},
            {"query"}, EmptyDict),
       Tool(RememberizerTools.LIST_INTEGRATIONS, {}, {}, EmptyDict),
       Tool(RememberizerTools.LIST_DOCUMENTS, {"page", "page_size"}, {},
            [k \in {"page", "page_size"} |-> IF k = "page" THEN IntVal(1) ELSE IntVal(100)]),
       Tool(RememberizerTools.MEMORIZE, {"name", "content"}, {}, EmptyDict) >>

(***************************************************************************)
(* call_tool: what each case of the match does up to its API Client call.  *)
(* A case either raises (a subscript on a missing key) or issues one call. *)
(***************************************************************************)
search_request_NoneAsText(arguments) ==
    IF "match_this" \notin DOMAIN arguments THEN KeyError("match_this")
    ELSE Call("GET", Plain(SEARCH_PATH),
              [q |-> arguments["match_this"],
               n |-> Get(arguments, "n_results", IntVal(5)),
               from |-> Get(arguments, "from_datetime_ISO8601", StrVal("None")),
               to |-> Get(arguments, "to_datetime_ISO8601", StrVal("None"))])

search_request(arguments) ==
    IF "match_this" \notin DOMAIN arguments THEN KeyError("match_this")
    ELSE Call("GET", Plain(SEARCH_PATH),
              [q |-> arguments["match_this"],
               n |-> Get(arguments, "n_results", IntVal(5)),
               from |-> Get(arguments, "from_datetime_ISO8601", None),
               to |-> Get(arguments, "to_datetime_ISO8601", None)])

agentic_search_request_ViaGet(arguments) ==
    IF "query" \notin DOMAIN arguments THEN KeyError("query")
    ELSE Call("GET", Plain(AGENTIC_SEARCH_PATH),
              [from |-> Get(arguments, "from_datetime_ISO8601", None),
               to |-> Get(arguments, "to_datetime_ISO8601", None),
               query |-> arguments["query"],
               n_chunks |-> Get(arguments, "n_results", IntVal(5)),
               user_context |-> Get(arguments, "user_context", None)])

agentic_search_request(arguments) ==
    IF "query" \notin DOMAIN arguments THEN KeyError("query")
    ELSE Call("POST", Plain(AGENTIC_SEARCH_PATH),
              [from |-> Get(arguments, "from_datetime_ISO8601", None),
               to |-> Get(arguments, "to_datetime_ISO8601", None),
               query |-> arguments["query"],
               n_chunks |-> Get(arguments, "n_results", IntVal(5)),
               user_context |-> Get(arguments, "user_context", None)])

list_integrations_request(arguments) ==
    Call("GET", Plain(LIST_INTEGRATIONS_PATH), EmptyDict)

account_information_request(arguments) ==
    Call("GET", Plain(ACCOUNT_INFORMATION_PATH), EmptyDict)

list_documents_request_PageSize10(arguments) ==
    Call("GET", Plain(LIST_DOCUMENTS_PATH),
         [page |-> Get(arguments, "page", IntVal(1)),
          page_size |-> Get(arguments, "page_size", IntVal(10))])

list_documents_request(arguments) ==
    Call("GET", Plain(LIST_DOCUMENTS_PATH),
         [page |-> Get(arguments, "page", IntVal(1)),
          page_size |-> Get(arguments, "page_size", IntVal(100))])

memorize_request_ContentOptional(arguments) ==
    IF "name" \notin DOMAIN arguments THEN KeyError("name")
    ELSE Call("POST", Plain(MEMORIZE_PATH),
              [name |-> arguments["name"],
               content |-> Get(arguments, "content", None)])

memorize_request(arguments) ==
    IF "name" \notin DOMAIN arguments THEN KeyError("name")
    ELSE IF "content" \notin DOMAIN arguments THEN KeyError("content")
    ELSE Call("POST", Plain(MEMORIZE_PATH),
              [name |-> arguments["name"], content |-> arguments["content"]])

unknown_tool_Fallback(name) ==
    Call("GET", Plain(ACCOUNT_INFORMATION_PATH), EmptyDict)

\* case _
unknown_tool(name) == Raise("ValueError", "Unknown tool")

call_tool_request(name, arguments) ==
    CASE name = "retrieve_semantically_similar_internal_knowledge" ->
             search_request(arguments)
      [] name = "smart_search_internal_knowledge" ->
             agentic_search_request(arguments)
      [] name = "list_internal_knowledge_systems" ->
             list_integrations_request(arguments)
      [] name = "rememberizer_account_information" ->
             account_information_request(arguments)
      [] name = "list_personal_team_knowledge_documents" ->
             list_documents_request(arguments)
      [] name = "remember_this" ->
             memorize_request(arguments)
      [] OTHER -> unknown_tool(name)

(***************************************************************************)
(* call_tool: the return statement of each case, given the decoded JSON    *)
(* value the API Client returned.                                          *)
(***************************************************************************)
call_tool_return_AllSubField(name, data) ==
    << TextContent(PyStr(Get(data.members, "data", JsonArray(<<>>)))) >>

call_tool_return(name, data) ==
    IF name = "list_internal_knowledge_systems"
    THEN << TextContent(PyStr(Get(data.members, "data", JsonArray(<<>>)))) >>
    ELSE << TextContent(PyStr(data)) >>

\* an exception of the awaited client call leaves the handler: no handler
\* has a try statement
Propagate(r) == Raise(r.error, r.detail)

call_tool_SwallowFailure(name, arguments, r) ==
    LET req == call_tool_request(name, arguments)
    IN  IF req.kind = "raise" THEN req
        ELSE IF ~r.ok THEN Return(<< TextContent(PyStr(JsonObject(EmptyDict))) >>)
        ELSE Return(call_tool_return(name, r.data))

call_tool(name, arguments, r) ==
    LET req == call_tool_request(name, arguments)
    IN  IF req.kind = "raise" THEN req
        ELSE IF ~r.ok THEN Propagate(r)
        ELSE Return(call_tool_return(name, r.data))

(***************************************************************************)
(* Resource uris.  A handler receives the uri parsed (pydantic AnyUrl):    *)
(* scheme, host and an optional path; a string is a sequence of            *)
(* characters.                                                             *)
(***************************************************************************)
NoPath == [present |-> FALSE, segment |-> <<>>]

SomePath(s) == [present |-> TRUE, segment |-> s]

Uri(scheme, host, path) == [path |-> path, scheme |-> scheme, host |-> host]

\* document["id"] of the documents the remote service lists
DocumentIds == {"42", "7"}

\* the uri of a listed document, document://<id>
get_document_uri(document) == Uri("document", document.members["id"], NoPath)

\* str.lstrip(chars) for a single character
RECURSIVE lstrip(_, _)
lstrip(s, ch) == IF Len(s) > 0 /\ s[1] = ch THEN lstrip(Tail(s), ch) ELSE s

(***************************************************************************)
(* read_resource.  The path template is None ("" here: both are falsy)     *)
(* unless the host is "document" or "slack".                               *)
(***************************************************************************)
read_resource_path_SlackAsDocument(uri) ==
    IF uri.host = "document" THEN RETRIEVE_DOCUMENT_PATH
    ELSE IF uri.host = "slack" THEN RETRIEVE_DOCUMENT_PATH
    ELSE ""

read_resource_path(uri) ==
    IF uri.host = "document" THEN RETRIEVE_DOCUMENT_PATH
    ELSE IF uri.host = "slack" THEN RETRIEVE_SLACK_PATH
    ELSE ""

read_resource_request(uri) ==
    LET path == read_resource_path(uri)
    IN  IF path = "" THEN Raise("ValueError", "Unknown resource")
        ELSE IF ~uri.path.present THEN Raise("AttributeError", "lstrip")
        ELSE Call("GET", Format(path, lstrip(uri.path.segment, "/")), EmptyDict)

read_resource(uri, r) ==
    LET req == read_resource_request(uri)
    IN  IF req.kind = "raise" THEN req
        ELSE IF ~r.ok THEN Propagate(r)
        ELSE Return(JsonDumpsIndent2(r.data))

(***************************************************************************)
(* list_resources.                                                         *)
(***************************************************************************)
Resource(uri, name, mimeType) == [name |-> name, uri |-> uri, mimeType |-> mimeType]

list_resources_request == Call("GET", Plain(LIST_DOCUMENTS_PATH), EmptyDict)

RECURSIVE list_resources_return_SkipRepeated(_)
list_resources_return_SkipRepeated(data) ==
    LET docs == data.members["results"].items
        n == Len(docs)
    IN  IF n = 0 THEN <<>>
        ELSE LET before == list_resources_return_SkipRepeated(
                               JsonObject([results |-> JsonArray(SubSeq(docs, 1, n - 1))]))
             IN  IF \E i \in 1..(n - 1) : docs[i].members["id"] = docs[n].members["id"]
                 THEN before
                 ELSE Append(before,
                             Resource(get_document_uri(docs[n]), docs[n].members["name"],
                                      "text/json"))

list_resources_return(data) ==
    LET results == data.members["results"].items
    IN  [i \in 1..Len(results) |->
            Resource(get_document_uri(results[i]), results[i].members["name"], "text/json")]

list_resources(r) ==
    IF ~r.ok THEN Propagate(r) ELSE Return(list_resources_return(r.data))

(***************************************************************************)
(* The API Client (utils.py) and the remote service behind it.  A call     *)
(* returns the decoded JSON body or raises RemoteError / TransportError.   *)
(***************************************************************************)
Ok(data) == [detail |-> "", data |-> data, error |-> "", ok |-> TRUE]

Failed(error, detail) ==
    [detail |-> detail, data |-> JsonObject(EmptyDict), error |-> error, ok |-> FALSE]

\* no call was made
NoReply == Failed("", "")

Failures == {Failed("RemoteError", "500"), Failed("TransportError", "connect")}

\* the query string of a GET: None-valued entries of params are omitted
QueryString(params) ==
    [k \in {k \in DOMAIN params : params[k] # None} |-> params[k]]

Documents == {JsonObject([id |-> id, name |-> name]) : id \in DocumentIds, name \in {"a", "b"}}

DocumentListings ==
    {JsonObject([results |-> JsonArray(l)]) :
        l \in UNION {[1..n -> Documents] : n \in 0..MaxResults}}

\* JSON objects the other endpoints answer with
JsonObjects ==
    {JsonObject(m) :
        m \in UNION {[D -> {JsonArray(<<>>), JsonArray(<<"gmail">>)}] :
                        D \in SUBSET {"data", "detail"}}}

Replies(template) ==
    IF template = LIST_DOCUMENTS_PATH
    THEN {Ok(d) : d \in DocumentListings} \cup Failures
    ELSE {Ok(d) : d \in JsonObjects} \cup Failures

(***************************************************************************)
(* Invocations the transport delivers.                                     *)
(***************************************************************************)
ToolNames == {list_tools[i].name : i \in 1..Len(list_tools)}

OtherNames == {"nonexistent_tool", "Remember_This", ""}

\* the keys of the arguments mapping: the properties the tool's schema
\* declares, or keys no schema of the tool declares
SchemaKeys(name) ==
    UNION {list_tools[i].inputSchema.properties :
              i \in {j \in 1..Len(list_tools) : list_tools[j].name = name}}

ArgKeys(name) ==
    IF SchemaKeys(name) = {} THEN {"name", "query"} ELSE SchemaKeys(name)

ArgValue(k, v) ==
    IF k \in {"n_results", "page", "page_size"}
    THEN IntVal(IF v = 1 THEN 3 ELSE 10)
    ELSE StrVal(IF v = 1 THEN "a" ELSE "b")

Arguments(name) ==
    {[k \in D |-> ArgValue(k, v)] : D \in SUBSET ArgKeys(name), v \in 1..2}

PathChars == {"/", "4"}

Paths ==
    {NoPath} \cup
    {SomePath(<<"/">> \o s) : s \in UNION {[1..n -> PathChars] : n \in 0..(MaxPathLen - 1)}}

Uris == {Uri(scheme, host, path) :
            scheme \in {"rememberizer", "document"},
            host \in {"document", "slack", "weird"} \cup DocumentIds,
            path \in Paths}

NoUri == Uri("", "", NoPath)

Invocation(op, name, arguments, uri) ==
    [name |-> name, arguments |-> arguments, uri |-> uri, op |-> op]

(***************************************************************************)
(* The state machine: one action per handler.                              *)
(***************************************************************************)
Init ==
    /\ inv = Invocation("none", "", EmptyDict, NoUri)
    /\ calls = <<>>
    /\ reply = NoReply
    /\ result = Return(<<>>)

\* the API Client calls a handler issues: none when it raises first, else
\* its one call
CallsOf(req) == IF req.kind = "call" THEN <<req>> ELSE <<>>

\* what the handler's call can be answered with
RepliesTo(req) == IF req.kind = "call" THEN Replies(req.path.template) ELSE {NoReply}

ListResources ==
    /\ inv' = Invocation("list_resources", "", EmptyDict, NoUri)
    /\ calls' = CallsOf(list_resources_request)
    /\ \E r \in RepliesTo(list_resources_request) :
          /\ reply' = r
          /\ result' = list_resources(r)

ReadResource ==
    \E uri \in Uris :
        /\ inv' = Invocation("read_resource", "", EmptyDict, uri)
        /\ calls' = CallsOf(read_resource_request(uri))
        /\ \E r \in RepliesTo(read_resource_request(uri)) :
              /\ reply' = r
              /\ result' = read_resource(uri, r)

ListTools ==
    /\ inv' = Invocation("list_tools", "", EmptyDict, NoUri)
    /\ calls' = <<>>
    /\ reply' = NoReply
    /\ result' = Return(list_tools)

CallTool ==
    \E name \in ToolNames \cup OtherNames :
      \E arguments \in Arguments(name) :
        /\ inv' = Invocation("call_tool", name, arguments, NoUri)
        /\ calls' = CallsOf(call_tool_request(name, arguments))
        /\ \E r \in RepliesTo(call_tool_request(name, arguments)) :
              /\ reply' = r
              /\ result' = call_tool(name, arguments, r)

Next == ListResources \/ ReadResource \/ ListTools \/ CallTool

Spec == Init /\ [][Next]_vars

(***************************************************************************)
(* Properties.  The tables below restate the specification's tool table;   *)
(* they are what the handlers are checked against, not part of the model.  *)
(***************************************************************************)
\* the required arguments of each tool, by the specification's table
TableRequired(name) ==
    CASE name = SEARCH -> {"match_this"}
      [] name = AGENTIC_SEARCH -> {"query"}
      [] name = MEMORIZE -> {"name", "content"}
      [] OTHER -> {}

\* the HTTP method and path of each tool, by the specification's table
TableCall(name) ==
    CASE name = ACCOUNT_INFORMATION -> <<"GET", ACCOUNT_INFORMATION_PATH>>
      [] name = SEARCH -> <<"GET", SEARCH_PATH>>
      [] name = AGENTIC_SEARCH -> <<"POST", AGENTIC_SEARCH_PATH>>
      [] name = LIST_INTEGRATIONS -> <<"GET", LIST_INTEGRATIONS_PATH>>
      [] name = LIST_DOCUMENTS -> <<"GET", LIST_DOCUMENTS_PATH>>
      [] name = MEMORIZE -> <<"POST", MEMORIZE_PATH>>
      [] OTHER -> <<"", "">>

\* C1: call_tool with a required argument missing raises the error naming a
\* missing required field (Python's KeyError on the subscript, the
\* specification's InvalidArgument) and issues no API Client call.
C1_MissingRequiredRejected ==
    (/\ inv.op = "call_tool"
     /\ TableRequired(inv.name) \ DOMAIN inv.arguments # {})
    => /\ result.kind = "raise"
       /\ result.exc = "KeyError"
       /\ result.detail \in TableRequired(inv.name) \ DOMAIN inv.arguments
       /\ calls = <<>>

C1_Witness ==
    /\ inv.op = "call_tool"
    /\ inv.name = MEMORIZE
    /\ DOMAIN inv.arguments = {"name"}
    /\ result.kind = "raise"
    /\ result.detail = "content"
    /\ calls = <<>>

\* C2: call_tool with a name that is not exactly one of the six catalog
\* names raises "Unknown tool" (the specification's UnknownTool), whatever
\* the arguments, and issues no API Client call.
C2_UnknownToolRejected ==
    (inv.op = "call_tool" /\ inv.name \notin ToolNames)
    => /\ result.kind = "raise"
       /\ result.exc = "ValueError"
       /\ result.detail = "Unknown tool"
       /\ calls = <<>>

C2_Witness ==
    /\ inv.op = "call_tool"
    /\ inv.name = "Remember_This"
    /\ DOMAIN inv.arguments = {"name", "query"}
    /\ result.kind = "raise"
    /\ result.detail = "Unknown tool"

\* the id is the path with its leading separators removed
LeadingSeparatorsStripped(path, id) ==
    /\ Len(id) > 0 => id[1] # "/"
    /\ \E k \in 0..Len(path) :
          /\ \A i \in 1..k : path[i] = "/"
          /\ id = SubSeq(path, k + 1, Len(path))

C5_ListResourcesInOrder ==
    inv.op = "list_resources"
    => /\ Len(calls) = 1
       /\ calls[1].method = "GET"
       /\ calls[1].path = Plain(LIST_DOCUMENTS_PATH)
       /\ reply.ok
          => /\ result.kind = "return"
             /\ LET results == reply.data.members["results"].items
                IN  /\ Len(result.value) = Len(results)
                    /\ \A i \in 1..Len(results) :
                          /\ result.value[i].uri.scheme = "document"
                          /\ result.value[i].uri.host = results[i].members["id"]
                          /\ ~result.value[i].uri.path.present
                          /\ result.value[i].name = results[i].members["name"]
                          /\ result.value[i].mimeType = "text/json"

C5_Witness ==
    /\ inv.op = "list_resources"
    /\ reply.ok
    /\ Len(reply.data.members["results"].items) = 2
    /\ reply.data.members["results"].items[1] = reply.data.members["results"].items[2]
    /\ result.kind = "return"
    /\ Len(result.value) = 2

\* the value the request carries for an optional argument with a default
CallerOrDefault(arguments, key, default) ==
    IF key \in DOMAIN arguments THEN arguments[key] ELSE default

\* C6: the outgoing request of call_tool carries, for each optional argument
\* with a default, the caller's value when the key is present and the default
\* when it is absent (search n = 5, agentic_search n_chunks = 5,
\* list_documents page = 1 and page_size = 100), and the required values
\* unchanged under the table's keys.
C6_DefaultsAndForwarding ==
    (inv.op = "call_tool" /\ Len(calls) = 1)
    => LET a == inv.arguments
           p == calls[1].params
       IN  /\ inv.name = SEARCH
              => /\ p["q"] = a["match_this"]
                 /\ p["n"] = CallerOrDefault(a, "n_results", IntVal(5))
           /\ inv.name = AGENTIC_SEARCH
              => /\ p["query"] = a["query"]
                 /\ p["n_chunks"] = CallerOrDefault(a, "n_results", IntVal(5))
           /\ inv.name = LIST_DOCUMENTS
              => /\ p["page"] = CallerOrDefault(a, "page", IntVal(1))
                 /\ p["page_size"] = CallerOrDefault(a, "page_size", IntVal(100))
           /\ inv.name = MEMORIZE
              => /\ p["name"] = a["name"]
                 /\ p["content"] = a["content"]

C6_Witness ==
    /\ inv.op = "call_tool"
    /\ inv.name = LIST_DOCUMENTS
    /\ DOMAIN inv.arguments = {"page"}
    /\ Len(calls) = 1
    /\ calls[1].params["page"] = IntVal(10)
    /\ calls[1].params["page_size"] = IntVal(100)

\* C7: when search is called without from_datetime_ISO8601 (resp.
\* to_datetime_ISO8601), the query string of the outgoing GET has no "from"
\* (resp. "to") entry, and no entry of it is the text "None" or "null".
C7_OmittedFiltersAbsent ==
    (inv.op = "call_tool" /\ inv.name = SEARCH /\ Len(calls) = 1)
    => LET q == QueryString(calls[1].params)
       IN  /\ "from_datetime_ISO8601" \notin DOMAIN inv.arguments
              => "from" \notin DOMAIN q
           /\ "to_datetime_ISO8601" \notin DOMAIN inv.arguments
              => "to" \notin DOMAIN q
           /\ \A k \in DOMAIN q : q[k] \notin {StrVal("None"), StrVal("null")}

C7_Witness ==
    /\ inv.op = "call_tool"
    /\ inv.name = SEARCH
    /\ DOMAIN inv.arguments = {"match_this", "to_datetime_ISO8601"}
    /\ Len(calls) = 1
    /\ calls[1].method = "GET"
    /\ DOMAIN QueryString(calls[1].params) = {"q", "n", "to"}

\* the arguments whose absence call_tool rejects
RejectedWhenAbsent(name) ==
    {k \in ArgKeys(name) :
        call_tool_request(name, [j \in ArgKeys(name) \ {k} |-> ArgValue(j, 1)]).kind = "raise"}

\* C8: list_tools returns six descriptors with pairwise distinct names, and
\* the fields each input schema marks as required are the table's required
\* arguments of the tool, which are the arguments whose absence call_tool
\* rejects.
C8_SchemaRequiredMatchesDispatch ==
    inv.op = "list_tools"
    => /\ result.kind = "return"
       /\ Len(result.value) = 6
       /\ \A i, j \in 1..Len(result.value) :
             result.value[i].name = result.value[j].name => i = j
       /\ \A i \in 1..Len(result.value) :
             /\ result.value[i].inputSchema.required = TableRequired(result.value[i].name)
             /\ result.value[i].inputSchema.required = RejectedWhenAbsent(result.value[i].name)

\* C9: when the one API Client call of a handler fails, the handler ends
\* with that same failure: it returns nothing and issues no further call.
C9_FailurePropagates ==
    /\ Len(calls) <= 1
    /\ (Len(calls) = 1 /\ ~reply.ok)
       => /\ result.kind = "raise"
          /\ result.exc = reply.error
          /\ result.exc \in {"RemoteError", "TransportError"}
          /\ result.detail = reply.detail

C9_Witness ==
    /\ inv.op = "call_tool"
    /\ inv.name = MEMORIZE
    /\ Len(calls) = 1
    /\ reply.error = "RemoteError"
    /\ result.kind = "raise"
    /\ result.exc = "RemoteError"

\* C10 as stated: every tool's payload is the str() rendering of the whole
\* decoded response.
C10_WholeResponseRendered ==
    (inv.op = "call_tool" /\ result.kind = "return")
    => /\ result.value[1].text.rule = "str"
       /\ result.value[1].text.value = reply.data

\* C10 as amended: every tool's payload is the str() rendering of a decoded
\* JSON value, which is the whole response for every tool but
\* list_integrations; list_integrations renders the response's "data" member,
\* and an empty list when the response has none.
C10_WholeResponseButIntegrations ==
    (inv.op = "call_tool" /\ result.kind = "return")
    => /\ result.value[1].text.rule = "str"
       /\ result.value[1].text.value =
             (IF inv.name # LIST_INTEGRATIONS THEN reply.data
              ELSE IF "data" \in DOMAIN reply.data.members
                   THEN reply.data.members["data"]
                   ELSE JsonArray(<<>>))

C10_Witness ==
    /\ inv.op = "call_tool"
    /\ inv.name = LIST_INTEGRATIONS
    /\ reply.ok
    /\ DOMAIN reply.data.members = {"detail"}
    /\ result.kind = "return"
    /\ result.value[1].text.value = JsonArray(<<>>)

====
